---- MODULE Spec2Model ----
(***************************************************************************)
(* A model of the catalog loader and the parameter store of                *)
(* src/Parameters.py and src/Parameters_JSON.py.                           *)
(*                                                                         *)
(* Strings are sequences of one-character strings, so that str.upper(),    *)
(* float() and int() are computed character by character.  Python floats   *)
(* are held in tenths (1.5 is [t |-> "float", v |-> 15]); Python ints are  *)
(* held in units (3 is [t |-> "int", v |-> 3]).                            *)
(***************************************************************************)
EXTENDS Integers, Sequences, FiniteSets, TLC

VARIABLES
    fname,          \* the catalog text file: a sequence of lines, each a sequence of tokens
    filename_json,  \* the parameter JSON file: the list under "globular_cluster"
    load_state,     \* "unloaded", "ok", or the error get_GC_params raised
    data_vasiliev,  \* VasilievList.data held by the caller after a successful load
    lastCall,       \* the last lookup: its arguments and what it returned or raised
    events,         \* what the lookups printed, returned and raised, in order
    first,          \* the outcome of the first lookup of each (operation, name)
    calls           \* number of lookups made

vars == <<fname, filename_json, load_state, data_vasiliev, lastCall, events, first, calls>>

\* ------------------------------------------------------------------ bounds

MaxLines == 3       \* lines of a catalog file
MaxRecords == 2     \* records of a parameter document
MaxCalls == 2       \* lookups in one behaviour

\* ----------------------------------------------------------------- strings

LowerChars == <<"a", "b", "c", "g", "m", "n", "x">>
UpperChars == <<"A", "B", "C", "G", "M", "N", "X">>

\* str.upper() on one character: cased letters map to upper case, every
\* other character (digits, ".", "#") is unchanged.
UpperChar(c) ==
    IF \E i \in 1..Len(LowerChars) : LowerChars[i] = c
    THEN UpperChars[CHOOSE i \in 1..Len(LowerChars) : LowerChars[i] = c]
    ELSE c

upper(s) == [i \in 1..Len(s) |-> UpperChar(s[i])]

DigitChars == <<"0", "1", "2", "3", "4", "5", "6", "7", "8", "9">>

IsDigit(c) == \E i \in 1..10 : DigitChars[i] = c

DigitVal(c) == (CHOOSE i \in 1..10 : DigitChars[i] = c) - 1

AllDigits(s) == Len(s) >= 1 /\ \A i \in 1..Len(s) : IsDigit(s[i])

RECURSIVE NatOf(_)
NatOf(s) ==
    IF Len(s) = 0 THEN 0
    ELSE 10 * NatOf(SubSeq(s, 1, Len(s) - 1)) + DigitVal(s[Len(s)])

\* ---------------------------------------------------------- Python numbers

PyFloat(tenths) == [t |-> "float", v |-> tenths]
PyInt(n) == [t |-> "int", v |-> n]
PyStr(s) == [t |-> "str", s |-> s]

\* The numeric value of a Python number, in tenths.
Tenths(x) == IF x.t = "int" THEN 10 * x.v ELSE x.v

\* A decimal literal the model reads: digits, optionally followed by "."
\* and one digit.
IsIntLiteral(s) == AllDigits(s)

IsFloatLiteral(s) ==
    \/ AllDigits(s)
    \/ /\ Len(s) >= 3
       /\ s[Len(s) - 1] = "."
       /\ IsDigit(s[Len(s)])
       /\ AllDigits(SubSeq(s, 1, Len(s) - 2))

\* float(s) for a string s that is a float literal.
FloatOfStr(s) ==
    IF AllDigits(s) THEN PyFloat(10 * NatOf(s))
    ELSE PyFloat(10 * NatOf(SubSeq(s, 1, Len(s) - 2)) + DigitVal(s[Len(s)]))

\* int(s) for a string s that is an int literal.
IntOfStr(s) == PyInt(NatOf(s))

\* ------------------------------------------------------------ catalog file

NCols == 13         \* fields of data_type
NameWidth == 16     \* ("name", np.unicode_, 16)

\* VasilievData(name=..., RA=..., ..., N_stars=...)
VasilievData(name, RA, DEC, distance, losv, err_losv, pm_RA, pm_DEC, err_pm_RA, err_pm_DEC, correlation, rh, N_stars) ==
    [name |-> name, RA |-> RA, DEC |-> DEC, distance |-> distance,
     losv |-> losv, err_losv |-> err_losv, pm_RA |-> pm_RA, pm_DEC |-> pm_DEC,
     err_pm_RA |-> err_pm_RA, err_pm_DEC |-> err_pm_DEC,
     correlation |-> correlation, rh |-> rh, N_stars |-> N_stars]

IsCommentToken(tok) == Len(tok) >= 1 /\ tok[1] = "#"

\* comments='#': everything from the first '#' to the end of the line is cut.
StripComment(line) ==
    IF \E i \in 1..Len(line) : IsCommentToken(line[i])
    THEN SubSeq(line, 1,
                (CHOOSE i \in 1..Len(line) :
                    /\ IsCommentToken(line[i])
                    /\ \A j \in 1..(i - 1) : ~IsCommentToken(line[j])) - 1)
    ELSE line

HasTokens(line) == Len(line) > 0

\* The lines loadtxt reads values from: comment-stripped, empty ones skipped.
DataRows(file) ==
    SelectSeq([i \in 1..Len(file) |-> StripComment(file[i])], HasTokens)

\* Mutant: the field count is checked only from below, so that extra
\* trailing fields are dropped.
RowConverts_extra_fields(row) ==
    /\ Len(row) >= NCols
    /\ \A k \in 2..(NCols - 1) : IsFloatLiteral(row[k])
    /\ IsIntLiteral(row[NCols])

\* A row converts when it has one token per field of data_type, a float
\* literal in each float column and an int literal in the int column.
RowConverts(row) ==
    /\ Len(row) = NCols
    /\ \A k \in 2..(NCols - 1) : IsFloatLiteral(row[k])
    /\ IsIntLiteral(row[NCols])

\* The converter of column k of data_type applied to a token.
ConvertColumn(k, tok) ==
    IF k = 1 THEN SubSeq(tok, 1, IF Len(tok) < NameWidth THEN Len(tok) ELSE NameWidth)
    ELSE IF k = NCols THEN IntOfStr(tok)
    ELSE FloatOfStr(tok)

\* Mutant: an input without data rows is squeezed to 0-d arrays as well.
loadtxt_squeeze_empty(file) ==
    LET rows == DataRows(file) IN
    IF \E i \in 1..Len(rows) : ~RowConverts(rows[i])
    THEN [raised |-> "ValueError"]
    ELSE [raised |-> "none",
          ndim |-> IF Len(rows) <= 1 THEN 0 ELSE 1,
          cols |-> [k \in 1..NCols |->
                      [i \in 1..Len(rows) |-> ConvertColumn(k, rows[i][k])]]]

\* np.loadtxt(fname, dtype=data_type, comments='#', unpack=True): one array
\* per field.  The result is squeezed, so a file with exactly one data row
\* gives 0-d arrays (ndim 0) and any other file 1-d arrays (ndim 1).
loadtxt(file) ==
    LET rows == DataRows(file) IN
    IF \E i \in 1..Len(rows) : ~RowConverts(rows[i])
    THEN [raised |-> "ValueError"]
    ELSE [raised |-> "none",
          ndim |-> IF Len(rows) = 1 THEN 0 ELSE 1,
          cols |-> [k \in 1..NCols |->
                      [i \in 1..Len(rows) |-> ConvertColumn(k, rows[i][k])]]]

\* The body of the for loop over zip(gc_names, gc_ra, ...): one VasilievData
\* per position, appended in order.
ZipRows(cols) ==
    [i \in 1..Len(cols[1]) |->
        VasilievData(cols[1][i], cols[2][i], cols[3][i], cols[4][i], cols[5][i],
                     cols[6][i], cols[7][i], cols[8][i], cols[9][i], cols[10][i],
                     cols[11][i], cols[12][i], cols[13][i])]

\* get_GC_params(fname).  zip() iterates its arguments: over 0-d arrays it
\* raises TypeError ("iteration over a 0-d array").
get_GC_params(file) ==
    LET r == loadtxt(file) IN
    IF r.raised # "none" THEN [raised |-> r.raised]
    ELSE IF r.ndim = 0 THEN [raised |-> "TypeError"]
    ELSE [raised |-> "none", data |-> ZipRows(r.cols)]

\* ---------------------------------------------------------- catalog lookup

PrintEvent(obj, text) == [ev |-> "print", op |-> "get_selected_GC", obj |-> obj, text |-> text]
ReturnEvent(op, obj) == [ev |-> "return", op |-> op, obj |-> obj, text |-> ""]
RaiseEvent(op, obj, exc) == [ev |-> "raise", op |-> op, obj |-> obj, text |-> exc]

\* The record built in the except branch.
EmptyVasilievData ==
    VasilievData(<<>>, PyFloat(0), PyFloat(0), PyFloat(0), PyFloat(0), PyFloat(0),
                 PyFloat(0), PyFloat(0), PyInt(0), PyFloat(0), PyInt(0),
                 PyFloat(0), PyInt(0))

\* The three print() calls of the except branch.
NotFoundNotice(obj_name) ==
    <<PrintEvent(obj_name, "object not found in Globular Cluster list!"),
      PrintEvent(<<>>, "You will have to add coordinates manually in the next cell."),
      PrintEvent(<<>>, "")>>

NameMatches(item_name, obj_name) == upper(item_name) = upper(obj_name)

\* Mutant: the loop keeps going after a match, so the last match wins.
ScanGC_last(obj_name, data, i) ==
    LET S == {j \in i..Len(data) : NameMatches(data[j].name, obj_name)} IN
    IF S = {} THEN 0 ELSE CHOOSE j \in S : \A k \in S : k <= j

\* The for loop of get_selected_GC from position i on: the position of the
\* first item whose name matches, 0 when the loop ends without a return.
RECURSIVE ScanGC(_, _, _)
ScanGC(obj_name, data, i) ==
    IF i > Len(data) THEN 0
    ELSE IF NameMatches(data[i].name, obj_name) THEN i
    ELSE ScanGC(obj_name, data, i + 1)

\* Mutant: no except branch, ClusterNotFound reaches the caller.
get_selected_GC_uncaught(obj_name, data) ==
    LET i == ScanGC(obj_name, data, 1) IN
    IF i # 0
    THEN [raised |-> "none", caught |-> "none", found |-> TRUE,
          rec |-> data[i], obj |-> i, printed |-> <<>>]
    ELSE [raised |-> "ClusterNotFound", printed |-> <<>>]

\* Mutant: the except branch returns without printing.
get_selected_GC_silent(obj_name, data) ==
    LET i == ScanGC(obj_name, data, 1) IN
    IF i # 0
    THEN [raised |-> "none", caught |-> "none", found |-> TRUE,
          rec |-> data[i], obj |-> i, printed |-> <<>>]
    ELSE [raised |-> "none", caught |-> "ClusterNotFound", found |-> FALSE,
          rec |-> EmptyVasilievData, obj |-> 0, printed |-> <<>>]

\* get_selected_GC(obj_name, data_listed): a hit returns the stored item
\* itself (obj is its position); a miss raises ClusterNotFound, which the
\* except branch catches, prints the notice and returns a new record.
get_selected_GC(obj_name, data) ==
    LET i == ScanGC(obj_name, data, 1) IN
    IF i # 0
    THEN [raised |-> "none", caught |-> "none", found |-> TRUE,
          rec |-> data[i], obj |-> i, printed |-> <<>>]
    ELSE [raised |-> "none", caught |-> "ClusterNotFound", found |-> FALSE,
          rec |-> EmptyVasilievData, obj |-> 0,
          printed |-> NotFoundNotice(obj_name)]

\* --------------------------------------------------------- parameter store

FloatFields ==
    {"PM_plot_x_axis_min", "PM_plot_x_axis_max", "PM_plot_y_axis_min",
     "PM_plot_y_axis_max", "width_minim", "width_maxim", "height_minim",
     "height_maxim", "incl_minim", "incl_maxim"}

IntFields == {"width_nstep", "height_nstep", "incl_nstep"}

NumFields == FloatFields \cup IntFields

AllFields == {"name"} \cup NumFields

\* ParametersGC(): every field at its declared default.
DefaultParametersGC ==
    [f \in AllFields |->
        IF f = "name" THEN <<>>
        ELSE IF f \in IntFields THEN PyInt(0)
        ELSE PyFloat(0)]

\* round(x) for a non-negative float held in tenths: half to even.
PyRound(tenths) ==
    LET q == tenths \div 10
        r == tenths % 10
    IN  IF r < 5 THEN q
        ELSE IF r > 5 THEN q + 1
        ELSE IF q % 2 = 0 THEN q ELSE q + 1

\* The builtin float(x) for x an int, a float or a string holding a literal.
float(x) ==
    IF x.t = "float" THEN x
    ELSE IF x.t = "int" THEN PyFloat(10 * x.v)
    ELSE FloatOfStr(x.s)

\* The builtin int(x): a float is truncated, a string is read as an int literal.
int(x) ==
    IF x.t = "int" THEN x
    ELSE IF x.t = "float" THEN PyInt(x.v \div 10)
    ELSE IntOfStr(x.s)

\* How from_dict loads a JSON value into a field annotated float.
LoadFloat(x) == float(x)

\* How from_dict loads a JSON value into a field annotated int: an int is
\* kept, a float and a string holding a float literal are rounded, any other
\* string is read as an int literal.
LoadInt(x) ==
    IF x.t = "int" THEN x
    ELSE IF x.t = "float" THEN PyInt(PyRound(x.v))
    ELSE IF AllDigits(x.s) THEN IntOfStr(x.s)
    ELSE PyInt(PyRound(FloatOfStr(x.s).v))

\* ParametersList.from_dict(data_json): one ParametersGC per JSON object of
\* the "globular_cluster" list, in order; a key the object lacks takes the
\* field's default, a value is loaded into the field's declared type.
from_dict(data_json) ==
    [i \in 1..Len(data_json) |->
        [f \in AllFields |->
            IF f \notin DOMAIN data_json[i] THEN DefaultParametersGC[f]
            ELSE IF f = "name" THEN data_json[i][f]
            ELSE IF f \in IntFields THEN LoadInt(data_json[i][f])
            ELSE LoadFloat(data_json[i][f])]]

\* ParametersGC(name=item.name, PM_plot_x_axis_min=float(...), ...,
\* incl_nstep=int(item.incl_nstep)): the record built on a hit.
CoerceParametersGC(item) ==
    [f \in AllFields |->
        IF f = "name" THEN item[f]
        ELSE IF f \in IntFields THEN int(item[f])
        ELSE float(item[f])]

\* The for loop over object_json.globular_cluster from position i on.
RECURSIVE ScanJSON(_, _, _)
ScanJSON(object_name, clusters, i) ==
    IF i > Len(clusters) THEN 0
    ELSE IF NameMatches(clusters[i].name, object_name) THEN i
    ELSE ScanJSON(object_name, clusters, i + 1)

\* Mutant: a hit returns the loaded item itself instead of a new record.
isInJSONParametersFile_item(data_json, object_name) ==
    LET object_json == from_dict(data_json)
        i == ScanJSON(object_name, object_json, 1)
    IN  IF i # 0
        THEN [raised |-> "none", found |-> TRUE,
              rec |-> object_json[i], obj |-> i, printed |-> <<>>]
        ELSE [raised |-> "none", found |-> FALSE,
              rec |-> DefaultParametersGC, obj |-> 0, printed |-> <<>>]

\* Mutant: a miss returns the record built from the loop variable's last
\* value instead of ParametersGC().
isInJSONParametersFile_last_item(data_json, object_name) ==
    LET object_json == from_dict(data_json)
        i == ScanJSON(object_name, object_json, 1)
    IN  IF i # 0
        THEN [raised |-> "none", found |-> TRUE,
              rec |-> CoerceParametersGC(object_json[i]), obj |-> 0,
              printed |-> <<>>]
        ELSE [raised |-> "none", found |-> FALSE,
              rec |-> IF Len(object_json) = 0 THEN DefaultParametersGC
                      ELSE CoerceParametersGC(object_json[Len(object_json)]),
              obj |-> 0, printed |-> <<>>]

\* isInJSONParametersFile(filename_json, object_name) of Parameters.py.  obj
\* is 0 for a record constructed by the call, else the position of the
\* loaded item that is returned itself.
isInJSONParametersFile(data_json, object_name) ==
    LET object_json == from_dict(data_json)
        i == ScanJSON(object_name, object_json, 1)
    IN  IF i # 0
        THEN [raised |-> "none", found |-> TRUE,
              rec |-> CoerceParametersGC(object_json[i]), obj |-> 0,
              printed |-> <<>>]
        ELSE [raised |-> "none", found |-> FALSE,
              rec |-> DefaultParametersGC, obj |-> 0, printed |-> <<>>]

\* Mutant: object_name resolves (to a module global holding '').
isInJSONParametersFile_JSON_global(data_json) ==
    LET object_json == from_dict(data_json)
        i == ScanJSON(<<>>, object_json, 1)
    IN  IF i # 0
        THEN [raised |-> "none", found |-> TRUE,
              rec |-> CoerceParametersGC(object_json[i]), obj |-> 0,
              printed |-> <<>>]
        ELSE [raised |-> "none", found |-> FALSE,
              rec |-> DefaultParametersGC, obj |-> 0, printed |-> <<>>]

\* isInJSONParametersFile(filename_json) of Parameters_JSON.py: the loop
\* condition reads object_name, which is neither a parameter, a local nor a
\* module global, so the first iteration raises NameError.
isInJSONParametersFile_JSON(data_json) ==
    LET object_json == from_dict(data_json) IN
    IF Len(object_json) > 0
    THEN [raised |-> "NameError", printed |-> <<>>]
    ELSE [raised |-> "none", found |-> FALSE,
          rec |-> DefaultParametersGC, obj |-> 0, printed |-> <<>>]

\* ------------------------------------------------------------------ inputs

ngc1 == <<"n", "g", "c", "1">>
NGC1 == <<"N", "G", "C", "1">>
Ngc1 == <<"N", "g", "c", "1">>
m2 == <<"m", "2">>
x9 == <<"x", "9">>

Digit(n) == DigitChars[n + 1]

\* The token of float column k (2..12) of the row written with seed v: a
\* different number per column; column 5 is written without a decimal point.
FloatTok(v, k) ==
    IF k = 5 THEN <<Digit(v), Digit(k)>>
    ELSE <<Digit(v), Digit(k \div 10), ".", Digit(k % 10)>>

IntTok(v) == <<Digit(v), "7">>

GoodLine(name, v) ==
    <<name>> \o [j \in 1..(NCols - 2) |-> FloatTok(v, j + 1)] \o <<IntTok(v)>>

CommentLine == << <<"#">>, <<"x">> >>
BlankLine == << >>
TrailingCommentLine == GoodLine(m2, 2) \o << <<"#", "x">>, <<"x">> >>
ShortLine == SubSeq(GoodLine(m2, 1), 1, NCols - 1)
LongLine == GoodLine(m2, 1) \o << <<"9">> >>
BadFloatLine == [GoodLine(m2, 1) EXCEPT ![3] = <<"x">>]
BadIntLine == [GoodLine(m2, 1) EXCEPT ![NCols] = <<"x">>]

WellFormedLines ==
    {GoodLine(ngc1, 1), GoodLine(NGC1, 2), GoodLine(m2, 1),
     TrailingCommentLine, CommentLine, BlankLine}

MalformedLines == {ShortLine, LongLine, BadFloatLine, BadIntLine}

CatLines == WellFormedLines \cup MalformedLines

\* The catalog files of the specification that runs both components.
CoreFiles ==
    {<< >>,
     <<CommentLine, BlankLine>>,
     <<GoodLine(ngc1, 1)>>,
     <<GoodLine(ngc1, 1), GoodLine(NGC1, 2)>>,
     <<GoodLine(NGC1, 2), CommentLine, GoodLine(ngc1, 1)>>,
     <<GoodLine(m2, 1), TrailingCommentLine, GoodLine(ngc1, 1)>>,
     <<GoodLine(ngc1, 1), BadFloatLine, GoodLine(NGC1, 2)>>}

SeqsUpTo(S, n) == UNION {[1..k -> S] : k \in 0..n}

CatQueries == {ngc1, NGC1, m2, x9}

\* The numeric fields in declaration order.
NumFieldSeq ==
    <<"PM_plot_x_axis_min", "PM_plot_x_axis_max", "PM_plot_y_axis_min",
      "PM_plot_y_axis_max", "width_minim", "width_maxim", "width_nstep",
      "height_minim", "height_maxim", "height_nstep", "incl_minim",
      "incl_maxim", "incl_nstep">>

FieldIndex(f) == CHOOSE k \in 1..Len(NumFieldSeq) : NumFieldSeq[k] = f

\* The JSON value of numeric field f in a record written in style s:
\*   1  floats as JSON floats (sk.5), step counts as JSON ints
\*   2  every number as a JSON string ("sk.5", "sk")
\*   3  floats as JSON ints, step counts as integral JSON floats (sk.0)
RawValue(s, f) ==
    LET k == FieldIndex(f) % 10
        n == 10 * s + k
    IN  IF s = 1 THEN (IF f \in IntFields THEN PyInt(n) ELSE PyFloat(10 * n + 5))
        ELSE IF s = 2
        THEN (IF f \in IntFields THEN PyStr(<<Digit(s), Digit(k)>>)
              ELSE PyStr(<<Digit(s), Digit(k), ".", "5">>))
        ELSE (IF f \in IntFields THEN PyFloat(10 * n) ELSE PyInt(n))

\* A JSON object with the keys `keys`, named `name`, written in style s.
RawGC(name, s, keys) ==
    [f \in keys |-> IF f = "name" THEN name ELSE RawValue(s, f)]

SparseKeys == {"name", "width_minim", "width_nstep"}

RawRecords ==
    {RawGC(n, s, AllFields) : n \in {ngc1, NGC1, m2}, s \in 1..3}
    \cup {RawGC(n, 1, SparseKeys) : n \in {ngc1, m2}}
    \cup {RawGC(<<>>, 1, NumFields)}

\* The parameter documents of the specification that runs both components.
CoreDocs ==
    {<< >>,
     <<RawGC(ngc1, 2, AllFields)>>,
     <<RawGC(ngc1, 2, AllFields), RawGC(NGC1, 1, AllFields)>>,
     <<RawGC(m2, 3, AllFields), RawGC(NGC1, 1, AllFields)>>,
     <<RawGC(m2, 1, SparseKeys), RawGC(<<>>, 1, NumFields)>>}

StoreQueries == {ngc1, Ngc1, x9, <<>>}

\* ------------------------------------------------------------------- state

NoCall == [op |-> "none"]

NoFirst == [k \in {} |-> NoCall]

InitCommon ==
    /\ load_state = "unloaded"
    /\ data_vasiliev = <<>>
    /\ lastCall = NoCall
    /\ events = <<>>
    /\ first = NoFirst
    /\ calls = 0

\* What a lookup leaves behind: the call and its outcome, the lines it
\* printed followed by its return (or raise), and the first outcome per
\* (operation, name).
Outcome(r) ==
    IF r.raised # "none" THEN [raised |-> r.raised]
    ELSE [raised |-> "none", found |-> r.found, rec |-> r.rec, obj |-> r.obj]

Completed(op, name, r) ==
    /\ lastCall' = [op |-> op, name |-> name, result |-> Outcome(r)]
    /\ events' = events \o r.printed \o
                 <<IF r.raised # "none" THEN RaiseEvent(op, name, r.raised)
                   ELSE ReturnEvent(op, name)>>
    /\ first' = IF <<op, name>> \in DOMAIN first THEN first
                ELSE first @@ (<<op, name>> :> Outcome(r))
    /\ calls' = calls + 1

\* data_vasiliev = get_GC_params(fname) in the caller.
Call_get_GC_params ==
    /\ load_state = "unloaded"
    /\ LET r == get_GC_params(fname) IN
        /\ load_state' = IF r.raised = "none" THEN "ok" ELSE r.raised
        /\ data_vasiliev' = IF r.raised = "none" THEN r.data ELSE data_vasiliev
    /\ UNCHANGED <<fname, filename_json, lastCall, events, first, calls>>

\* Mutant: a hit removes the returned item from the list.
Call_get_selected_GC_pop(obj_name) ==
    /\ load_state = "ok"
    /\ calls < MaxCalls
    /\ LET r == get_selected_GC(obj_name, data_vasiliev) IN
        /\ Completed("get_selected_GC", obj_name, r)
        /\ data_vasiliev' =
              IF r.found
              THEN SubSeq(data_vasiliev, 1, r.obj - 1)
                   \o SubSeq(data_vasiliev, r.obj + 1, Len(data_vasiliev))
              ELSE data_vasiliev
    /\ UNCHANGED <<fname, filename_json, load_state>>

\* get_selected_GC(obj_name, data_vasiliev) in the caller.
Call_get_selected_GC(obj_name) ==
    /\ load_state = "ok"
    /\ calls < MaxCalls
    /\ Completed("get_selected_GC", obj_name, get_selected_GC(obj_name, data_vasiliev))
    /\ UNCHANGED <<fname, filename_json, load_state, data_vasiliev>>

\* isInJSONParametersFile(filename_json, object_name) of Parameters.py.
Call_isInJSONParametersFile(object_name) ==
    /\ calls < MaxCalls
    /\ Completed("isInJSONParametersFile", object_name,
                 isInJSONParametersFile(filename_json, object_name))
    /\ UNCHANGED <<fname, filename_json, load_state, data_vasiliev>>

\* isInJSONParametersFile(filename_json) of Parameters_JSON.py.
Call_isInJSONParametersFile_JSON ==
    /\ calls < MaxCalls
    /\ Completed("isInJSONParametersFile_JSON", <<>>,
                 isInJSONParametersFile_JSON(filename_json))
    /\ UNCHANGED <<fname, filename_json, load_state, data_vasiliev>>

\* ---------------------------------------------------------- specifications

\* The catalog loader alone, over every catalog file of the bounds.
InitCat ==
    /\ fname \in SeqsUpTo(CatLines, MaxLines)
    /\ filename_json = <<>>
    /\ InitCommon

NextCat ==
    \/ Call_get_GC_params
    \/ \E n \in CatQueries : Call_get_selected_GC(n)

SpecCat == InitCat /\ [][NextCat]_vars

\* The parameter store alone, over every document of the bounds.
InitStore ==
    /\ fname = <<>>
    /\ filename_json \in SeqsUpTo(RawRecords, MaxRecords)
    /\ InitCommon

NextStore ==
    \/ \E n \in StoreQueries : Call_isInJSONParametersFile(n)
    \/ Call_isInJSONParametersFile_JSON

SpecStore == InitStore /\ [][NextStore]_vars

\* Both components in one caller, lookups interleaved in any order.
Init ==
    /\ fname \in CoreFiles
    /\ filename_json \in CoreDocs
    /\ InitCommon

Next ==
    \/ Call_get_GC_params
    \/ \E n \in CatQueries : Call_get_selected_GC(n)
    \/ \E n \in StoreQueries : Call_isInJSONParametersFile(n)
    \/ Call_isInJSONParametersFile_JSON

Spec == Init /\ [][Next]_vars

\* ----------------------------------------------------- reading the claims

\* The number a decimal literal denotes, in tenths.
LiteralTenths(s) ==
    IF \E i \in 1..Len(s) : s[i] = "."
    THEN LET d == CHOOSE i \in 1..Len(s) : s[i] = "." IN
         10 * NatOf(SubSeq(s, 1, d - 1)) + NatOf(SubSeq(s, d + 1, Len(s)))
    ELSE 10 * NatOf(s)

IsNumeral(s) ==
    /\ Len(s) >= 1
    /\ IsDigit(s[1])
    /\ \A i \in 1..Len(s) : IsDigit(s[i]) \/ s[i] = "."

\* The record fields in the column order of the catalog file.
CatFieldSeq ==
    <<"name", "RA", "DEC", "distance", "losv", "err_losv", "pm_RA", "pm_DEC",
      "err_pm_RA", "err_pm_DEC", "correlation", "rh", "N_stars">>

\* A data row as the file format defines it: 13 fields, the last 12 numeric.
IsValidRow(row) ==
    /\ Len(row) = 13
    /\ \A k \in 2..13 : IsNumeral(row[k])

IsValidCatalog(file) ==
    \A i \in 1..Len(DataRows(file)) : IsValidRow(DataRows(file)[i])

\* rec carries the 13 values written in row.
RecordEqualsRow(rec, row) ==
    /\ rec.name = row[1]
    /\ \A k \in 2..13 : Tenths(rec[CatFieldSeq[k]]) = LiteralTenths(row[k])

RowMatches(row, name) == upper(row[1]) = upper(name)

IsCatLookup == lastCall.op = "get_selected_GC"
IsStoreLookup == lastCall.op = "isInJSONParametersFile"
IsStoreLookupJSON == lastCall.op = "isInJSONParametersFile_JSON"
Returned == lastCall.result.raised = "none"

\* C1: for every valid catalog file with at least one data row,
\* get_GC_params succeeds, and get_selected_GC with a name that equals some
\* row's name after upper-casing both returns found=True and a record whose
\* 13 fields equal that row's values.
C1_LoadThenFindReturnsRow ==
    LET rows == DataRows(fname) IN
    (IsValidCatalog(fname) /\ Len(rows) >= 1 /\ load_state # "unloaded") =>
        /\ load_state = "ok"
        /\ (IsCatLookup /\ \E i \in 1..Len(rows) : RowMatches(rows[i], lastCall.name)) =>
              /\ Returned
              /\ lastCall.result.found
              /\ \E i \in 1..Len(rows) :
                    /\ RowMatches(rows[i], lastCall.name)
                    /\ RecordEqualsRow(lastCall.result.rec, rows[i])

\* The part of C1 the code keeps: the same, for files with two or more rows.
C1_HoldsFromTwoRows ==
    LET rows == DataRows(fname) IN
    (IsValidCatalog(fname) /\ Len(rows) >= 2 /\ load_state # "unloaded") =>
        /\ load_state = "ok"
        /\ (IsCatLookup /\ \E i \in 1..Len(rows) : RowMatches(rows[i], lastCall.name)) =>
              /\ Returned
              /\ lastCall.result.found
              /\ \E i \in 1..Len(rows) :
                    /\ RowMatches(rows[i], lastCall.name)
                    /\ RecordEqualsRow(lastCall.result.rec, rows[i])

AllZero(rec, fields) == \A f \in fields : Tenths(rec[f]) = 0

CatNumFields == {CatFieldSeq[k] : k \in 2..13}

NoRecordMatches(name) ==
    \A i \in 1..Len(data_vasiliev) : upper(data_vasiliev[i].name) # upper(name)

\* C2: a catalog lookup of a name that matches no record case-insensitively
\* returns (no error propagates) found=False and a record with an empty name
\* and 12 numeric fields equal to 0.
C2_MissReturnsZeroRecord ==
    (IsCatLookup /\ NoRecordMatches(lastCall.name)) =>
        /\ Returned
        /\ events[Len(events)] = ReturnEvent("get_selected_GC", lastCall.name)
        /\ lastCall.result.found = FALSE
        /\ lastCall.result.rec.name = <<>>
        /\ AllZero(lastCall.result.rec, CatNumFields)

C2_Witness ==
    /\ IsCatLookup
    /\ Len(data_vasiliev) >= 2
    /\ NoRecordMatches(lastCall.name)
    /\ lastCall.result.found = FALSE

\* Positions of the file's data rows whose name matches, in file order.
MatchingRows(name) ==
    {i \in 1..Len(DataRows(fname)) : RowMatches(DataRows(fname)[i], name)}

FirstOf(S) == CHOOSE i \in S : \A j \in S : i <= j

\* C3: when two or more records match the name case-insensitively, the
\* lookup returns the one at the lowest position in file order.
C3_FirstMatchWins ==
    (IsCatLookup /\ Cardinality(MatchingRows(lastCall.name)) >= 2) =>
        LET i == FirstOf(MatchingRows(lastCall.name)) IN
        /\ Returned
        /\ lastCall.result.found
        /\ lastCall.result.obj = i
        /\ lastCall.result.rec = data_vasiliev[i]
        /\ RecordEqualsRow(lastCall.result.rec, DataRows(fname)[i])

C3_Witness ==
    /\ IsCatLookup
    /\ Len(DataRows(fname)) = 3
    /\ MatchingRows(lastCall.name) = {2, 3}
    /\ data_vasiliev[2] # data_vasiliev[3]
    /\ lastCall.result.rec = data_vasiliev[2]

\* The "globular_cluster" list as written in the JSON file.
StoredName(raw) == IF "name" \in DOMAIN raw THEN raw["name"] ELSE <<>>

\* The number a JSON value denotes, in tenths; an absent key is the default 0.
JSONTenths(raw, f) ==
    IF f \notin DOMAIN raw THEN 0
    ELSE IF raw[f].t = "str" THEN LiteralTenths(raw[f].s)
    ELSE IF raw[f].t = "int" THEN 10 * raw[f].v
    ELSE raw[f].v

MatchingStored(name) ==
    {i \in 1..Len(filename_json) : upper(StoredName(filename_json[i])) = upper(name)}

\* C4: a store lookup of a name matching a record case-insensitively returns
\* found=True and a new record carrying the first matching record's stored
\* name and its 13 numeric values, float fields as floats and the three
\* *_nstep fields as ints.
C4_HitReturnsCoercedCopy ==
    (IsStoreLookup /\ MatchingStored(lastCall.name) # {}) =>
        LET raw == filename_json[FirstOf(MatchingStored(lastCall.name))]
            rec == lastCall.result.rec
        IN  /\ Returned
            /\ lastCall.result.found
            /\ lastCall.result.obj = 0
            /\ rec.name = StoredName(raw)
            /\ \A f \in FloatFields : rec[f].t = "float" /\ rec[f].v = JSONTenths(raw, f)
            /\ \A f \in IntFields : rec[f].t = "int" /\ 10 * rec[f].v = JSONTenths(raw, f)

\* A hit by a letter-case variant on a document with two matching records:
\* the first holds the JSON string "21.5" in a float field, and the float
\* 21.5 is returned.
C4_Witness ==
    /\ IsStoreLookup
    /\ Len(filename_json) = 2
    /\ MatchingStored(lastCall.name) = {1, 2}
    /\ DOMAIN filename_json[1] = AllFields
    /\ DOMAIN filename_json[2] = AllFields
    /\ lastCall.name # StoredName(filename_json[1])
    /\ filename_json[1]["PM_plot_x_axis_min"] = PyStr(<<"2", "1", ".", "5">>)
    /\ filename_json[2]["PM_plot_x_axis_min"] # filename_json[1]["PM_plot_x_axis_min"]
    /\ lastCall.result.rec["PM_plot_x_axis_min"] = PyFloat(215)

\* C5: a store lookup of a name matching no record (the record list may be
\* empty) returns found=False and the default record, and raises nothing.
C5_MissReturnsDefault ==
    (IsStoreLookup /\ MatchingStored(lastCall.name) = {}) =>
        /\ Returned
        /\ events[Len(events)] = ReturnEvent("isInJSONParametersFile", lastCall.name)
        /\ lastCall.result.found = FALSE
        /\ lastCall.result.rec.name = <<>>
        /\ AllZero(lastCall.result.rec, NumFields)
        /\ Cardinality(NumFields) = 13

C5_Witness ==
    /\ IsStoreLookup
    /\ Len(filename_json) = 2
    /\ MatchingStored(lastCall.name) = {}
    /\ lastCall.result.found = FALSE
    /\ \E k \in DOMAIN first : k[1] = "isInJSONParametersFile" /\ first[k].found

C5_WitnessEmptyList ==
    /\ IsStoreLookup
    /\ Len(filename_json) = 0
    /\ lastCall.result.found = FALSE

\* No data rows: every line is blank or a comment line.
HasNoDataRows(file) ==
    \A i \in 1..Len(file) : Len(file[i]) = 0 \/ file[i][1][1] = "#"

\* C6: loading a catalog file with no data rows succeeds with an empty list,
\* and every lookup on it returns found=False.
C6_EmptyCatalog ==
    (HasNoDataRows(fname) /\ load_state # "unloaded") =>
        /\ load_state = "ok"
        /\ data_vasiliev = <<>>
        /\ IsCatLookup => (Returned /\ lastCall.result.found = FALSE)

C6_Witness ==
    /\ HasNoDataRows(fname)
    /\ Len(fname) = 2
    /\ fname[1] # fname[2]
    /\ IsCatLookup
    /\ calls = 2

\* A data line that breaks the file format.
IsMalformedLine(line) ==
    LET row == StripComment(line) IN
    Len(row) > 0 /\ ~IsValidRow(row)

\* C7: if any data line has a field count other than 13 or a non-numeric
\* value in a numeric column, get_GC_params fails with an error, the caller
\* gets no list, and so no lookup is ever made on a partial list.
C7_MalformedLineFails ==
    ((\E i \in 1..Len(fname) : IsMalformedLine(fname[i])) /\ load_state # "unloaded") =>
        /\ load_state \notin {"ok", "unloaded"}
        /\ data_vasiliev = <<>>
        /\ ~IsCatLookup

C7_Witness ==
    /\ Len(fname) = 3
    /\ IsValidRow(fname[1]) /\ IsValidRow(fname[3])
    /\ IsMalformedLine(fname[2])
    /\ load_state = "ValueError"

\* The events a step appended.
NewEvents == SubSeq(events', Len(events) + 1, Len(events'))

IsLookupStep == calls' = calls + 1

\* C8: get_selected_GC prints the notice naming the queried object exactly
\* when it misses, and prints it before it returns; on a hit it prints
\* nothing; isInJSONParametersFile prints nothing on a hit or on a miss.
C8_NoticeOnlyOnCatalogMiss ==
    [][IsLookupStep =>
        LET n == Len(NewEvents) IN
        /\ n >= 1
        /\ NewEvents[n].ev \in {"return", "raise"}
        /\ NewEvents[n].op = lastCall'.op
        /\ \A i \in 1..(n - 1) : NewEvents[i].ev = "print"
        /\ IF lastCall'.op = "get_selected_GC" /\ ~lastCall'.result.found
           THEN /\ n >= 2
                /\ NewEvents[1].obj = lastCall'.name
                /\ NewEvents[1].text = "object not found in Globular Cluster list!"
           ELSE n = 1]_vars

PrintsIn(evs) == {i \in 1..Len(evs) : evs[i].ev = "print"}

\* A catalog miss right after a store miss: only the catalog miss printed.
C8_Witness ==
    /\ calls = 2
    /\ IsCatLookup
    /\ ~lastCall.result.found
    /\ events[1] = ReturnEvent("isInJSONParametersFile", x9)
    /\ PrintsIn(events) = {2, 3, 4}
    /\ events[Len(events)] = ReturnEvent("get_selected_GC", lastCall.name)

\* C9: a lookup changes neither the loaded list nor the parameter document
\* nor the catalog file, and a lookup repeated with the same name gives the
\* outcome the first one gave.
C9_LookupsChangeNothing ==
    [][IsLookupStep =>
        /\ data_vasiliev' = data_vasiliev
        /\ filename_json' = filename_json
        /\ fname' = fname
        /\ load_state' = load_state
        /\ lastCall'.result = first'[<<lastCall'.op, lastCall'.name>>]
        /\ (<<lastCall'.op, lastCall'.name>> \in DOMAIN first =>
                lastCall'.result = first[<<lastCall'.op, lastCall'.name>>])]_vars

\* The same catalog hit made twice.
C9_Witness ==
    /\ calls = 2
    /\ IsCatLookup
    /\ lastCall.result.found
    /\ Len(events) = 2
    /\ events[1] = events[2]
    /\ Len(data_vasiliev) >= 2

C10_WitnessEmptyList ==
    /\ IsStoreLookupJSON
    /\ Len(filename_json) = 0
    /\ Returned

====
